---- MODULE Spec2Model ----
(***************************************************************************)
(* State-machine model of extensions/amp-selector/0.1/amp-selector.js:     *)
(* the AmpSelector element (single/multiple selection, roving tabindex,    *)
(* hidden form inputs, the "select" action event).                         *)
(*                                                                         *)
(* Option elements are identified by their position in document order      *)
(* (1..N).  JavaScript array indices (focusedIndex_, indexOf results) are  *)
(* kept 0-based as in the source.                                          *)
(***************************************************************************)
EXTENDS Integers, Sequences, FiniteSets, TLC

(* ------------------------------ bounds -------------------------------- *)
(* the largest number of [option] elements in the markup *)
MaxOpts == 2
(* the largest number of mutateElement callbacks waiting to run *)
MaxPending == 1

(* `option` attribute values that appear in the markup, and the values an  *)
(* external `selected` mutation may carry ("Q" matches no option).  Only   *)
(* equality of values matters, so the first option is given the value "X". *)
OptionValues == {"X", "Y"}
RequestValues == OptionValues \cup {"Q"}

(* KEYBOARD_SELECT_MODES *)
KEYBOARD_SELECT_MODES == [NONE |-> "none", FOCUS |-> "focus", SELECT |-> "select"]

(* values of the keyboard-select-mode attribute read by buildCallback;     *)
(* "" stands for an absent (null) or empty attribute, both falsy           *)
KbAttrValues == {"", "none", "focus", "select", "bogus"}

(* values of the `name` attribute of the element ("" = absent or empty)    *)
NameAttrValues == {"", "sel"}

(* key codes delivered to keyDownHandler_ *)
Keycodes == {"LEFT_ARROW", "UP_ARROW", "RIGHT_ARROW", "DOWN_ARROW", "ENTER"}

VARIABLES
  phase,             \* "constructed", "built", or "failed" (buildCallback threw)
  elementName,       \* this.element.getAttribute('name')
  optionAttr,        \* DOM: option attribute of each [option] element
  disabledAttr,      \* DOM: presence of `disabled` on each option element
  selectedAttr,      \* DOM: presence of `selected` on each option element
  ariaSelected,      \* DOM: aria-selected of each option element
  tabIndex,          \* DOM: tabIndex of each option element
  isMultiple_,
  isDisabled_,
  kbSelectMode_,
  options_,
  selectedOptions_,
  inputs_,
  focusedIndex_,
  clickListener,     \* 'click' listener attached to the element
  keyListener,       \* 'keydown' listener attached to the element
  mutateQueue,       \* mutateElement callbacks scheduled and not yet run
  fired,             \* "select" events triggered by the last step
  raised,            \* error thrown by the last step ("" if none)
  lastOp             \* the last operation that ran, with its argument

vars == <<phase, elementName, optionAttr, disabledAttr, selectedAttr,
          ariaSelected, tabIndex, isMultiple_, isDisabled_, kbSelectMode_,
          options_, selectedOptions_, inputs_, focusedIndex_, clickListener,
          keyListener, mutateQueue, fired, raised, lastOp>>

(* ----------------------------- helpers -------------------------------- *)

Range(s) == {s[i] : i \in 1..Len(s)}

(* Array.prototype.indexOf: 0-based index of the first occurrence, or -1 *)
indexOf(arr, x) ==
  IF \E i \in 1..Len(arr) : arr[i] = x
  THEN (CHOOSE i \in 1..Len(arr) : arr[i] = x /\ \A j \in 1..(i-1) : arr[j] # x) - 1
  ELSE -1

(* Array.prototype.splice(index, 1) with a 0-based index *)
splice(arr, index) ==
  [i \in 1..(Len(arr) - 1) |-> IF i <= index THEN arr[i] ELSE arr[i + 1]]

(* JavaScript %: the result takes the sign of the dividend *)
JsRem(a, n) == IF a >= 0 THEN a % n ELSE -((-a) % n)

(* the widget object together with the parts of the document it touches *)
This ==
  [phase |-> phase, elementName |-> elementName, optionAttr |-> optionAttr,
   disabledAttr |-> disabledAttr, selectedAttr |-> selectedAttr,
   ariaSelected |-> ariaSelected, tabIndex |-> tabIndex,
   isMultiple_ |-> isMultiple_, isDisabled_ |-> isDisabled_,
   kbSelectMode_ |-> kbSelectMode_, options_ |-> options_,
   selectedOptions_ |-> selectedOptions_, inputs_ |-> inputs_,
   focusedIndex_ |-> focusedIndex_, clickListener |-> clickListener,
   keyListener |-> keyListener, mutateQueue |-> mutateQueue,
   fired |-> <<>>, raised |-> ""]

Commit(w) ==
  /\ phase' = w.phase
  /\ elementName' = w.elementName
  /\ optionAttr' = w.optionAttr
  /\ disabledAttr' = w.disabledAttr
  /\ selectedAttr' = w.selectedAttr
  /\ ariaSelected' = w.ariaSelected
  /\ tabIndex' = w.tabIndex
  /\ isMultiple_' = w.isMultiple_
  /\ isDisabled_' = w.isDisabled_
  /\ kbSelectMode_' = w.kbSelectMode_
  /\ options_' = w.options_
  /\ selectedOptions_' = w.selectedOptions_
  /\ inputs_' = w.inputs_
  /\ focusedIndex_' = w.focusedIndex_
  /\ clickListener' = w.clickListener
  /\ keyListener' = w.keyListener
  /\ mutateQueue' = w.mutateQueue
  /\ fired' = w.fired
  /\ raised' = w.raised

(* --------------------- selection primitives --------------------------- *)

(* variant: the result of indexOf is not tested; splice(-1, 1) removes the
   last element *)
clearSelection_NoIndexCheck(w, element) ==
  LET selIndex == indexOf(w.selectedOptions_, element) IN
  [w EXCEPT !.selectedAttr[element] = FALSE,
            !.ariaSelected[element] = "false",
            !.selectedOptions_ = IF selIndex # -1 THEN splice(@, selIndex)
                                 ELSE SubSeq(@, 1, Len(@) - 1)]

clearSelection_(w, element) ==
  LET selIndex == indexOf(w.selectedOptions_, element) IN
  [w EXCEPT !.selectedAttr[element] = FALSE,
            !.ariaSelected[element] = "false",
            !.selectedOptions_ = IF selIndex # -1 THEN splice(@, selIndex) ELSE @]

(* variant: the array is emptied without clearing the elements' attributes *)
clearAllSelections_ArrayOnly(w) ==
  [w EXCEPT !.selectedOptions_ = <<>>]

RECURSIVE clearAllSelections_(_)
clearAllSelections_(w) ==
  IF Len(w.selectedOptions_) > 0
  THEN LET el == w.selectedOptions_[Len(w.selectedOptions_)]
           popped == [w EXCEPT !.selectedOptions_ = SubSeq(@, 1, Len(@) - 1)]
       IN clearAllSelections_(clearSelection_(popped, el))
  ELSE w

(* variant: an element that is already selected is selected again *)
setSelection_NoIncludesCheck(w, element) ==
  LET cleared == IF ~w.isMultiple_ THEN clearAllSelections_(w) ELSE w IN
  [cleared EXCEPT !.selectedAttr[element] = TRUE,
                  !.ariaSelected[element] = "true",
                  !.selectedOptions_ = Append(@, element)]

(* variant: the other selections are kept in a single-select widget *)
setSelection_NoClear(w, element) ==
  IF element \in Range(w.selectedOptions_)
  THEN w
  ELSE [w EXCEPT !.selectedAttr[element] = TRUE,
                 !.ariaSelected[element] = "true",
                 !.selectedOptions_ = Append(@, element)]

setSelection_(w, element) ==
  IF element \in Range(w.selectedOptions_)
  THEN w
  ELSE LET cleared == IF ~w.isMultiple_ THEN clearAllSelections_(w) ELSE w IN
       [cleared EXCEPT !.selectedAttr[element] = TRUE,
                       !.ariaSelected[element] = "true",
                       !.selectedOptions_ = Append(@, element)]

(* ------------------------- focus and inputs --------------------------- *)

(* variant: the first option receives focus whatever is selected *)
updateFocus_FirstOption(w) ==
  IF w.kbSelectMode_ = KEYBOARD_SELECT_MODES.NONE
  THEN w
  ELSE LET reset == [w EXCEPT !.tabIndex =
                       [e \in DOMAIN @ |-> IF e \in Range(w.options_) THEN -1 ELSE @[e]]]
       IN IF Len(w.options_) > 0
          THEN [reset EXCEPT !.focusedIndex_ = 0, !.tabIndex[w.options_[1]] = 0]
          ELSE reset

(* variant: a multi-select widget focuses its first selected option too *)
updateFocus_IgnoreMultiple(w) ==
  IF w.kbSelectMode_ = KEYBOARD_SELECT_MODES.NONE
  THEN w
  ELSE LET reset == [w EXCEPT !.tabIndex =
                       [e \in DOMAIN @ |-> IF e \in Range(w.options_) THEN -1 ELSE @[e]]]
           initialFocusedElement ==
             IF Len(w.selectedOptions_) > 0 THEN w.selectedOptions_[1]
             ELSE IF Len(w.options_) > 0 THEN w.options_[1] ELSE 0
       IN IF initialFocusedElement # 0
          THEN [reset EXCEPT !.focusedIndex_ = indexOf(w.options_, initialFocusedElement),
                             !.tabIndex[initialFocusedElement] = 0]
          ELSE reset

(* variant: the tabIndex of the options is not reset to -1 first *)
updateFocus_NoReset(w) ==
  IF w.kbSelectMode_ = KEYBOARD_SELECT_MODES.NONE
  THEN w
  ELSE LET initialFocusedElement ==
             IF w.isMultiple_
             THEN (IF Len(w.options_) > 0 THEN w.options_[1] ELSE 0)
             ELSE (IF Len(w.selectedOptions_) > 0 THEN w.selectedOptions_[1]
                   ELSE IF Len(w.options_) > 0 THEN w.options_[1] ELSE 0)
       IN IF initialFocusedElement # 0
          THEN [w EXCEPT !.focusedIndex_ = indexOf(w.options_, initialFocusedElement),
                         !.tabIndex[initialFocusedElement] = 0]
          ELSE w

updateFocus_(w) ==
  IF w.kbSelectMode_ = KEYBOARD_SELECT_MODES.NONE
  THEN w
  ELSE LET reset == [w EXCEPT !.tabIndex =
                       [e \in DOMAIN @ |-> IF e \in Range(w.options_) THEN -1 ELSE @[e]]]
           \* 0 stands for `undefined`
           initialFocusedElement ==
             IF w.isMultiple_
             THEN (IF Len(w.options_) > 0 THEN w.options_[1] ELSE 0)
             ELSE (IF Len(w.selectedOptions_) > 0 THEN w.selectedOptions_[1]
                   ELSE IF Len(w.options_) > 0 THEN w.options_[1] ELSE 0)
       IN IF initialFocusedElement # 0
          THEN [reset EXCEPT !.focusedIndex_ = indexOf(w.options_, initialFocusedElement),
                             !.tabIndex[initialFocusedElement] = 0]
          ELSE reset

(* the option values of the selected options that are not disabled *)
RECURSIVE EnabledValues(_, _)
EnabledValues(w, sel) ==
  IF sel = <<>> THEN <<>>
  ELSE LET rest == EnabledValues(w, Tail(sel)) IN
       IF ~w.disabledAttr[Head(sel)]
       THEN <<w.optionAttr[Head(sel)]>> \o rest
       ELSE rest

(* variant: the inputs created earlier are not removed *)
setInputs_KeepOld(w) ==
  IF w.elementName = "" \/ w.isDisabled_
  THEN [w |-> w, selectedValues |-> <<>>]
  ELSE LET selectedValues == EnabledValues(w, w.selectedOptions_) IN
       [w |-> [w EXCEPT !.inputs_ = @ \o
                 [i \in 1..Len(selectedValues) |->
                    [name |-> w.elementName, value |-> selectedValues[i]]]],
        selectedValues |-> selectedValues]

(* returns the widget after the call and the returned selectedValues *)
setInputs_(w) ==
  IF w.elementName = "" \/ w.isDisabled_
  THEN [w |-> w, selectedValues |-> <<>>]
  ELSE LET selectedValues == EnabledValues(w, w.selectedOptions_) IN
       [w |-> [w EXCEPT !.inputs_ =
                 [i \in 1..Len(selectedValues) |->
                    [name |-> w.elementName, value |-> selectedValues[i]]]],
        selectedValues |-> selectedValues]

init_(w) ==
  LET options == [i \in 1..Len(w.optionAttr) |-> i]
      RECURSIVE each(_, _)
      each(v, i) ==
        IF i > Len(options) THEN v
        ELSE LET option == options[i]
                 s == IF v.selectedAttr[option]
                      THEN setSelection_(v, option)
                      ELSE clearSelection_(v, option)
             IN each([s EXCEPT !.tabIndex[option] = 0,
                               !.options_ = Append(@, option)], i + 1)
  IN setInputs_(updateFocus_(each(w, 1))).w

(* --------------------------- build ------------------------------------ *)

(* user().assert(cond, message) failing: the callback is abandoned *)
userAssertFailed(w, message) ==
  [w EXCEPT !.phase = "failed", !.raised = message]

isEnumValue(enum, value) == \E k \in DOMAIN enum : enum[k] = value

(* variant: init_ runs before the attribute is validated *)
buildCallback_InitFirst(w, hasMultiple, hasDisabled, kbAttr) ==
  LET flags == [w EXCEPT !.isMultiple_ = hasMultiple, !.isDisabled_ = hasDisabled]
      kbSelectMode == IF kbAttr = "" THEN KEYBOARD_SELECT_MODES.NONE ELSE kbAttr
      inited == init_([flags EXCEPT !.kbSelectMode_ = kbSelectMode])
  IN IF ~isEnumValue(KEYBOARD_SELECT_MODES, kbSelectMode)
     THEN userAssertFailed(inited, "Invalid keyboard-select-mode")
     ELSE IF flags.isMultiple_ /\ kbSelectMode = KEYBOARD_SELECT_MODES.SELECT
     THEN userAssertFailed(inited,
            "[keyboard-select-mode=select] not supported for multiple selection amp-selector")
     ELSE [inited EXCEPT
             !.phase = "built",
             !.clickListener = ~inited.isDisabled_,
             !.keyListener = ~inited.isDisabled_
                             /\ inited.kbSelectMode_ # KEYBOARD_SELECT_MODES.NONE]

(* hasMultiple/hasDisabled: presence of `multiple`/`disabled` on the element;
   kbAttr: its keyboard-select-mode attribute *)
buildCallback(w, hasMultiple, hasDisabled, kbAttr) ==
  LET flags == [w EXCEPT !.isMultiple_ = hasMultiple, !.isDisabled_ = hasDisabled]
      kbSelectMode == IF kbAttr = "" THEN KEYBOARD_SELECT_MODES.NONE ELSE kbAttr
  IN IF ~isEnumValue(KEYBOARD_SELECT_MODES, kbSelectMode)
     THEN userAssertFailed(flags, "Invalid keyboard-select-mode")
     ELSE IF flags.isMultiple_ /\ kbSelectMode = KEYBOARD_SELECT_MODES.SELECT
     THEN userAssertFailed(flags,
            "[keyboard-select-mode=select] not supported for multiple selection amp-selector")
     ELSE LET inited == init_([flags EXCEPT !.kbSelectMode_ = kbSelectMode]) IN
          [inited EXCEPT
             !.phase = "built",
             !.clickListener = ~inited.isDisabled_,
             !.keyListener = ~inited.isDisabled_
                             /\ inited.kbSelectMode_ # KEYBOARD_SELECT_MODES.NONE]

(* --------------------- external `selected` mutation ------------------- *)

(* mutations['selected']: undefined, null, a scalar, or an array *)
NoValue == [kind |-> "undefined", vals |-> <<>>]
RequestArrays ==
  {<<>>} \cup {<<a>> : a \in RequestValues}
         \cup {<<p[1], p[2]>> : p \in {q \in RequestValues \X RequestValues : q[1] # q[2]}}
SelectedMutations ==
  {NoValue, [kind |-> "null", vals |-> <<>>]}
    \cup {[kind |-> "scalar", vals |-> <<a>>] : a \in RequestValues}
    \cup {[kind |-> "array", vals |-> s] : s \in RequestArrays}

(* variant: the array is not truncated *)
slice01_Whole(arr) == arr

(* Array.prototype.slice(0, 1) *)
slice01(arr) == IF Len(arr) > 0 THEN <<arr[1]>> ELSE <<>>

selectedAttributeMutated_(w, newValue) ==
  IF newValue.kind = "null"
  THEN clearAllSelections_(w)
  ELSE LET normalized == newValue.vals   \* Array.isArray(v) ? v : [v]
           selectedArray == IF ~w.isMultiple_ THEN slice01(normalized) ELSE normalized
           selectedMap == Range(selectedArray)
           RECURSIVE each(_, _)
           each(v, i) ==
             IF i > Len(v.options_) THEN v
             ELSE LET element == v.options_[i]
                      option == v.optionAttr[element]
                  IN each(IF option \in selectedMap
                          THEN setSelection_(v, element)
                          ELSE clearSelection_(v, element), i + 1)
       IN setInputs_(updateFocus_(each(w, 1))).w

mutatedAttributesCallback(w, selected) ==
  IF selected.kind # "undefined"
  THEN selectedAttributeMutated_(w, selected)
  ELSE w

(* ------------------------- user selection ----------------------------- *)

(* BaseElement.mutateElement(mutator): the mutator runs later, in the
   order in which it was scheduled *)
mutateElement(w, el) ==
  [w EXCEPT !.mutateQueue = Append(@, el)]

(* variant: an empty array is taken to be falsy *)
Truthy_NonEmpty(selectedValues) ==
  selectedValues.defined /\ selectedValues.selectedValues # <<>>

(* `if (selectedValues)`: undefined is falsy, every array is truthy *)
Truthy(selectedValues) == selectedValues.defined

(* variant: a selected option is deselected in a single-select widget too *)
optionPickedMutator_AlwaysToggle(w, el) ==
  LET sync(v) == LET r == setInputs_(v) IN
                 [w |-> r.w, defined |-> TRUE, selectedValues |-> r.selectedValues]
      res == IF w.selectedAttr[el]
             THEN sync(clearSelection_(w, el))
             ELSE sync(setSelection_(w, el))
  IN [updateFocus_(res.w) EXCEPT
        !.fired = Append(@, [targetOption |-> w.optionAttr[el],
                             selectedOptions |-> res.selectedValues])]

(* the function passed to mutateElement by onOptionPicked_(el) *)
optionPickedMutator(w, el) ==
  LET undefinedValues == [w |-> w, defined |-> FALSE, selectedValues |-> <<>>]
      sync(v) == LET r == setInputs_(v) IN
                 [w |-> r.w, defined |-> TRUE, selectedValues |-> r.selectedValues]
      res == IF w.selectedAttr[el]
             THEN (IF w.isMultiple_ THEN sync(clearSelection_(w, el)) ELSE undefinedValues)
             ELSE sync(setSelection_(w, el))
  IN IF Truthy(res)
     THEN [updateFocus_(res.w) EXCEPT
             !.fired = Append(@, [targetOption |-> w.optionAttr[el],
                                  selectedOptions |-> res.selectedValues])]
     ELSE res.w

(* variant: the `disabled` attribute of the option is not looked at *)
onOptionPicked_NoDisabledCheck(w, el) ==
  mutateElement(w, el)

onOptionPicked_(w, el) ==
  IF w.disabledAttr[el]
  THEN w
  ELSE mutateElement(w, el)

(* target: the option element that is, or encloses, event.target;
   0 when the target has no enclosing [option] element *)
clickHandler_(w, target) ==
  IF target # 0
  THEN onOptionPicked_(w, target)
  ELSE w

keyDir(keyCode, isLtr) ==
  CASE keyCode = "LEFT_ARROW"  -> (IF isLtr THEN -1 ELSE 1)
    [] keyCode = "UP_ARROW"    -> -1
    [] keyCode = "RIGHT_ARROW" -> (IF isLtr THEN 1 ELSE -1)
    [] keyCode = "DOWN_ARROW"  -> 1
    [] OTHER                   -> 0

(* variant: the index stops at the first and the last option *)
nextFocusedIndex_Clamped(w, dir) ==
  LET index == w.focusedIndex_ + dir IN
  IF index < 0 THEN 0
  ELSE IF index >= Len(w.options_) THEN Len(w.options_) - 1
  ELSE index

(* focusedIndex_ after a navigation key, 0-based *)
nextFocusedIndex(w, dir) ==
  LET rem == JsRem(w.focusedIndex_ + dir, Len(w.options_)) IN
  IF rem < 0 THEN rem + Len(w.options_) ELSE rem

(* variant: the newly focused option does not get tabIndex 0 *)
keyDownHandler_NoRefocus(w, keyCode, isLtr) ==
  LET dir == keyDir(keyCode, isLtr) IN
  IF dir = 0
  THEN w
  ELSE IF w.focusedIndex_ + 1 \notin DOMAIN w.options_
  THEN [w EXCEPT !.raised = "TypeError"]
  ELSE LET unfocused == [w EXCEPT !.tabIndex[w.options_[w.focusedIndex_ + 1]] = -1]
           index == nextFocusedIndex(unfocused, dir)
           newSelectedOption == unfocused.options_[index + 1]
           moved == [unfocused EXCEPT !.focusedIndex_ = index]
       IN IF moved.kbSelectMode_ = KEYBOARD_SELECT_MODES.SELECT
          THEN onOptionPicked_(moved, newSelectedOption)
          ELSE moved

keyDownHandler_(w, keyCode, isLtr) ==
  LET dir == keyDir(keyCode, isLtr) IN
  IF dir = 0
  THEN w
  ELSE IF w.focusedIndex_ + 1 \notin DOMAIN w.options_
  THEN \* this.options_[this.focusedIndex_] is undefined
       [w EXCEPT !.raised = "TypeError"]
  ELSE LET unfocused == [w EXCEPT !.tabIndex[w.options_[w.focusedIndex_ + 1]] = -1]
           index == nextFocusedIndex(unfocused, dir)
           newSelectedOption == unfocused.options_[index + 1]
           moved == [unfocused EXCEPT !.focusedIndex_ = index,
                                     !.tabIndex[newSelectedOption] = 0]
       IN IF moved.kbSelectMode_ = KEYBOARD_SELECT_MODES.SELECT
          THEN onOptionPicked_(moved, newSelectedOption)
          ELSE moved

(* ------------------------------ actions ------------------------------- *)

Op(kind, el, value) == [kind |-> kind, el |-> el, value |-> value]

Init ==
  /\ phase = "constructed"
  /\ elementName \in NameAttrValues
  /\ \E n \in 0..MaxOpts :
       /\ optionAttr \in {f \in [1..n -> OptionValues] : n > 0 => f[1] = "X"}
       /\ disabledAttr \in [1..n -> BOOLEAN]
       /\ selectedAttr \in [1..n -> BOOLEAN]
       /\ ariaSelected = [e \in 1..n |-> "absent"]
       /\ tabIndex = [e \in 1..n |-> -1]
  /\ isMultiple_ = FALSE
  /\ isDisabled_ = FALSE
  /\ kbSelectMode_ = KEYBOARD_SELECT_MODES.NONE
  /\ options_ = <<>>
  /\ selectedOptions_ = <<>>
  /\ inputs_ = <<>>
  /\ focusedIndex_ = 0
  /\ clickListener = FALSE
  /\ keyListener = FALSE
  /\ mutateQueue = <<>>
  /\ fired = <<>>
  /\ raised = ""
  /\ lastOp = Op("constructor", 0, NoValue)

BuildCallback ==
  /\ phase = "constructed"
  /\ \E hasMultiple \in BOOLEAN, hasDisabled \in BOOLEAN, kbAttr \in KbAttrValues :
       Commit(buildCallback(This, hasMultiple, hasDisabled, kbAttr))
  /\ lastOp' = Op("build", 0, NoValue)

Click ==
  /\ clickListener
  /\ \E target \in 0..Len(optionAttr) :
       LET w == clickHandler_(This, target) IN
       /\ Len(w.mutateQueue) <= MaxPending
       /\ Commit(w)
       /\ lastOp' = Op("click", target, NoValue)

KeyDown ==
  /\ keyListener
  /\ \E keyCode \in Keycodes, isLtr \in BOOLEAN :
       LET w == keyDownHandler_(This, keyCode, isLtr) IN
       /\ Len(w.mutateQueue) <= MaxPending
       /\ Commit(w)
       /\ lastOp' = Op("key",
                       IF keyDir(keyCode, isLtr) # 0 /\ w.raised = ""
                       THEN w.options_[w.focusedIndex_ + 1] ELSE 0,
                       NoValue)

MutatedAttributes ==
  /\ phase = "built"
  /\ \E selected \in SelectedMutations :
       /\ Commit(mutatedAttributesCallback(This, selected))
       /\ lastOp' = Op("mutation", 0, selected)

RunMutate ==
  /\ mutateQueue # <<>>
  /\ LET el == Head(mutateQueue) IN
     /\ Commit(optionPickedMutator([This EXCEPT !.mutateQueue = Tail(@)], el))
     /\ lastOp' = Op("mutate", el, NoValue)

Next ==
  \/ BuildCallback
  \/ Click
  \/ KeyDown
  \/ MutatedAttributes
  \/ RunMutate

Spec == Init /\ [][Next]_vars

(* ======================= properties of the widget ===================== *)

Built == phase = "built"
SelectedSet == Range(selectedOptions_)
Named == elementName # ""

(* option values of the selected options without `disabled`, in selection order *)
EmittedValues ==
  LET enabled == SelectSeq(selectedOptions_, LAMBDA e : ~disabledAttr[e]) IN
  [i \in 1..Len(enabled) |-> optionAttr[enabled[i]]]

(* the frame of a pick: selection, option attributes and hidden inputs *)
selectionVars == <<selectedOptions_, selectedAttr, ariaSelected, inputs_>>
focusVars == <<focusedIndex_, tabIndex>>

(* C1: a widget built without `multiple` never has more than one selected
   option, whatever the markup and whatever clicks, keys and external
   mutations it has handled. *)
C1_SingleSelectExclusive ==
  ~isMultiple_ => Len(selectedOptions_) <= 1

(* a single-select widget of several options in which a pick changed the selection *)
C1_Witness ==
  /\ Built /\ ~isMultiple_ /\ Len(options_) >= 2
  /\ lastOp.kind = "mutate" /\ fired # <<>>
  /\ Len(selectedOptions_) = 1

(* C2: after initialization the selected options are options of the widget
   that carry `selected` and aria-selected="true", and every other option
   carries aria-selected="false" and no `selected`. *)
C2_AttributesMirrorSelection ==
  Built =>
    /\ \A el \in SelectedSet :
         el \in Range(options_) /\ selectedAttr[el] /\ ariaSelected[el] = "true"
    /\ \A el \in Range(options_) \ SelectedSet :
         ~selectedAttr[el] /\ ariaSelected[el] = "false"

(* a single-select widget whose selection was replaced by an external mutation *)
C2_Witness ==
  /\ Built /\ ~isMultiple_ /\ Len(options_) >= 2
  /\ lastOp.kind = "mutation" /\ lastOp.value.kind = "scalar"
  /\ selectedOptions_ = <<2>>

(* C3: on a widget with a name that is not disabled, after every handler the
   number of hidden inputs equals the number of selected options without
   `disabled`. *)
C3_InputsMatchSelection ==
  (Built /\ Named /\ ~isDisabled_) => Len(inputs_) = Len(EmittedValues)

(* C4: a null external `selected` value pushed onto a named, enabled widget
   that has selected options leaves no selected option and no hidden input. *)
C4_NullMutationClearsInputs ==
  [][(/\ lastOp'.kind = "mutation" /\ lastOp'.value.kind = "null"
      /\ Built /\ Named /\ ~isDisabled_
      /\ selectedOptions_ # <<>>)
     => (selectedOptions_' = <<>> /\ inputs_' = <<>>)]_vars

(* the list an external mutation asks for: the value as a list, cut down to
   its first element in a single-select widget *)
RequestedList(newValue) ==
  IF isMultiple_ \/ newValue.vals = <<>>
  THEN newValue.vals
  ELSE <<newValue.vals[1]>>

NonNullMutation ==
  Built /\ lastOp.kind = "mutation" /\ lastOp.value.kind \in {"scalar", "array"}

(* C5 as stated: after an external mutation with a non-null value an option
   is selected if and only if its `option` value is in the requested list,
   also when several options share a value. *)
C5_SelectedIffRequested ==
  NonNullMutation =>
    \A el \in Range(options_) :
      el \in SelectedSet <=> optionAttr[el] \in Range(RequestedList(lastOp.value))

(* C5 amended: in a multi-select widget an option is selected after a
   non-null external mutation if and only if its value is requested; a
   single-select widget selects, among the options carrying the requested
   value, only the last one in document order. *)
C5_SelectedIffRequestedLastWins ==
  NonNullMutation =>
    \A el \in Range(options_) :
      el \in SelectedSet <=>
        /\ optionAttr[el] \in Range(RequestedList(lastOp.value))
        /\ isMultiple_ \/ \A other \in Range(options_) :
                            optionAttr[other] = optionAttr[el] => other <= el

(* two options share the requested value in a single-select widget *)
C5_Witness ==
  /\ NonNullMutation /\ ~isMultiple_
  /\ \E a, b \in Range(options_) :
       /\ a < b /\ optionAttr[a] = optionAttr[b]
       /\ optionAttr[b] \in Range(RequestedList(lastOp.value))
       /\ selectedOptions_ = <<b>>

(* C6: a "select" event fires exactly once when a user-driven pick changes
   the set of selected options, and in no other step: not for an external
   mutation, not for a pick that leaves the selection as it was. *)
C6_NotifiesOncePerChangingPick ==
  [][Len(fired') =
       IF lastOp'.kind = "mutate" /\ Range(selectedOptions_') # SelectedSet
       THEN 1 ELSE 0]_vars

(* a pick deselected the only selected option of a multi-select widget *)
C6_Witness ==
  /\ Built /\ isMultiple_ /\ lastOp.kind = "mutate"
  /\ selectedOptions_ = <<>> /\ Len(fired) = 1

(* C7: every "select" event carries the value of the toggled option as
   targetOption and, as selectedOptions, the values of the options that are
   selected and not disabled after the toggle, in selection order. *)
C7_NotificationPayload ==
  \A i \in 1..Len(fired) :
    /\ lastOp.kind = "mutate"
    /\ fired[i].targetOption = optionAttr[lastOp.el]
    /\ fired[i].selectedOptions = EmittedValues

(* C8 as stated: in a single-select widget a click or a SELECT-mode key that
   picks the option already selected changes neither the selection, the
   attributes, the inputs, focusedIndex nor any tabIndex, and fires no event. *)
C8_RepickIsNoOp ==
  [][(/\ ~isMultiple_
      /\ \/ lastOp'.kind \in {"click", "mutate"}
         \/ lastOp'.kind = "key" /\ kbSelectMode_ = KEYBOARD_SELECT_MODES.SELECT
      /\ lastOp'.el \in SelectedSet)
     => (UNCHANGED selectionVars /\ UNCHANGED focusVars /\ fired' = <<>>)]_vars

(* C8 amended: in a single-select widget Option Picked on the option that is
   selected changes nothing (selection, attributes, inputs, focusedIndex,
   tabIndex) and fires no event, both in the click handler and when the
   scheduled mutation runs; a SELECT-mode key has moved focusedIndex and
   tabIndex 0 onto that option before it picks it, and changes nothing else. *)
C8_RepickKeepsSelection ==
  [][(/\ ~isMultiple_
      /\ \/ lastOp'.kind \in {"click", "mutate"}
         \/ lastOp'.kind = "key" /\ kbSelectMode_ = KEYBOARD_SELECT_MODES.SELECT
      /\ lastOp'.el \in SelectedSet)
     => /\ UNCHANGED selectionVars
        /\ fired' = <<>>
        /\ lastOp'.kind \in {"click", "mutate"} => UNCHANGED focusVars
        /\ lastOp'.kind = "key" =>
             /\ options_'[focusedIndex_' + 1] = lastOp'.el
             /\ tabIndex' = [e \in DOMAIN tabIndex |->
                               IF e = lastOp'.el THEN 0
                               ELSE IF e = options_[focusedIndex_ + 1] THEN -1
                               ELSE tabIndex[e]]]_vars

(* the mutation of a pick ran on the selected option of a single-select widget *)
C8_Witness ==
  /\ Built /\ ~isMultiple_ /\ Len(options_) >= 2
  /\ lastOp.kind = "mutate" /\ lastOp.el \in SelectedSet
  /\ fired = <<>>

(* C9: Option Picked on an option that carries `disabled` changes nothing,
   selected or not, single- or multi-select: selection, attributes and inputs
   stay, nothing is scheduled and no event fires; after a click focusedIndex
   and every tabIndex are as before, after a SELECT-mode key they are as the
   navigation left them. *)
C9_DisabledPickIgnored ==
  [][(/\ \/ lastOp'.kind = "click"
         \/ lastOp'.kind = "key" /\ kbSelectMode_ = KEYBOARD_SELECT_MODES.SELECT
      /\ lastOp'.el # 0
      /\ disabledAttr[lastOp'.el])
     => /\ UNCHANGED selectionVars
        /\ UNCHANGED mutateQueue
        /\ fired' = <<>>
        /\ lastOp'.kind = "click" => UNCHANGED focusVars
        /\ lastOp'.kind = "key" =>
             /\ options_'[focusedIndex_' + 1] = lastOp'.el
             /\ tabIndex'[lastOp'.el] = 0]_vars

(* a click on an option that is both selected and disabled *)
C9_Witness ==
  /\ Built /\ lastOp.kind = "click" /\ lastOp.el # 0
  /\ disabledAttr[lastOp.el] /\ lastOp.el \in SelectedSet

(* C10: with keyboard-select-mode focus or select, after initialization at
   most one option has tabIndex 0 and every other option has tabIndex -1. *)
C10_RovingTabIndex ==
  (Built /\ kbSelectMode_ # KEYBOARD_SELECT_MODES.NONE) =>
    /\ Cardinality({el \in Range(options_) : tabIndex[el] = 0}) <= 1
    /\ \A el \in Range(options_) : tabIndex[el] \in {0, -1}

(* a navigation key moved tabIndex 0 to another option *)
C10_Witness ==
  /\ Built /\ kbSelectMode_ # KEYBOARD_SELECT_MODES.NONE /\ Len(options_) >= 2
  /\ lastOp.kind = "key" /\ lastOp.el # 0
  /\ {el \in Range(options_) : tabIndex[el] = 0} = {lastOp.el}

(* ---------------------------- navigation ------------------------------ *)

(* the keys that mean "next" and "previous", as <<keyCode, isLtr>> *)
NextKeys == {<<"DOWN_ARROW", TRUE>>, <<"DOWN_ARROW", FALSE>>,
             <<"RIGHT_ARROW", TRUE>>, <<"LEFT_ARROW", FALSE>>}
PreviousKeys == {<<"UP_ARROW", TRUE>>, <<"UP_ARROW", FALSE>>,
                 <<"LEFT_ARROW", TRUE>>, <<"RIGHT_ARROW", FALSE>>}

(* every scheduled mutator has run, in scheduling order *)
RECURSIVE Drain(_)
Drain(w) ==
  IF w.mutateQueue = <<>> THEN w
  ELSE Drain(optionPickedMutator([w EXCEPT !.mutateQueue = Tail(@)],
                                 Head(w.mutateQueue)))

(* the key pressed k times in a row; with `sync` each pick's mutator runs
   before the next key is handled *)
RECURSIVE Press(_, _, _, _)
Press(w, key, k, sync) ==
  IF k = 0 THEN w
  ELSE LET handled == keyDownHandler_(w, key[1], key[2]) IN
       Press(IF sync THEN Drain(handled) ELSE handled, key, k - 1, sync)

FocusableOptions(w) == {el \in Range(w.options_) : w.tabIndex[el] = 0}

(* C11: with n >= 1 options and any focusedIndex the widget can have, n
   presses of a "next" key in a row bring focusedIndex and the tabIndex-0
   option back to where they were, and so do n presses of a "previous" key;
   one "next" from the last option gives index 0 and one "previous" from the
   first gives the last. *)
C11_WraparoundNavigation ==
  (keyListener /\ Len(options_) >= 1) =>
    LET n == Len(options_) IN
    /\ \A key \in NextKeys \cup PreviousKeys :
         \A sync \in (IF mutateQueue = <<>> THEN BOOLEAN ELSE {FALSE}) :
           LET after == Press(This, key, n, sync) IN
           /\ after.focusedIndex_ = focusedIndex_
           /\ FocusableOptions(after) = {options_[focusedIndex_ + 1]}
    /\ focusedIndex_ = n - 1 =>
         \A key \in NextKeys : Press(This, key, 1, FALSE).focusedIndex_ = 0
    /\ focusedIndex_ = 0 =>
         \A key \in PreviousKeys : Press(This, key, 1, FALSE).focusedIndex_ = n - 1

(* a navigation key has just wrapped from the last option to the first *)
C11_Witness ==
  /\ Built /\ Len(options_) = MaxOpts /\ MaxOpts >= 2
  /\ lastOp.kind = "key" /\ lastOp.el = options_[1]
  /\ focusedIndex_ = 0 /\ FocusableOptions(This) = {options_[1]}

(* C12: a built widget raises no runtime error; in particular a navigation
   key on a widget without options is a no-op and does not fail. *)
C12_NoRuntimeError ==
  Built => raised = ""

(* C13: single-select widget with keyboard-select-mode=select: a navigation
   key moved focus to an option that is neither disabled nor selected; when
   the pick it scheduled runs, that option becomes the only selected one,
   the option selected before is deselected, focusedIndex is the option's
   index, and exactly one event fires, with the option's value as
   targetOption. *)
C13_KeyboardSelectPicksFocused ==
  [][(/\ Built /\ ~isMultiple_ /\ kbSelectMode_ = KEYBOARD_SELECT_MODES.SELECT
      /\ lastOp.kind = "key" /\ lastOp.el # 0
      /\ ~disabledAttr[lastOp.el] /\ lastOp.el \notin SelectedSet
      /\ mutateQueue = <<lastOp.el>>
      /\ lastOp'.kind = "mutate")
     => /\ selectedOptions_' = <<lastOp.el>>
        /\ \A el \in SelectedSet : ~selectedAttr'[el] /\ ariaSelected'[el] = "false"
        /\ options_[focusedIndex_ + 1] = lastOp.el
        /\ options_'[focusedIndex_' + 1] = lastOp.el
        /\ tabIndex'[lastOp.el] = 0
        /\ Len(fired') = 1
        /\ fired'[1].targetOption = optionAttr[lastOp.el]]_vars

(* a key moved focus from the selected option to another one, which it picked *)
C13_Witness ==
  /\ Built /\ ~isMultiple_ /\ kbSelectMode_ = KEYBOARD_SELECT_MODES.SELECT
  /\ lastOp.kind = "key" /\ lastOp.el # 0
  /\ mutateQueue = <<lastOp.el>>
  /\ selectedOptions_ # <<>> /\ lastOp.el \notin SelectedSet

(* the values of keyboard-select-mode that buildCallback rejects, alone or
   together with `multiple` *)
RejectedBuild(hasMultiple, kbAttr) ==
  \/ kbAttr \notin {"", "none", "focus", "select"}
  \/ hasMultiple /\ kbAttr = "select"

(* C14: building fails with a configuration error when keyboard-select-mode
   is not none/focus/select or when `multiple` comes with
   keyboard-select-mode=select; initialization is then abandoned: options and
   selectedOptions stay empty, no hidden input is created and no click or key
   listener is attached. *)
C14_RejectedBuildLeavesWidgetInert ==
  /\ phase = "constructed" =>
       \A hasMultiple \in BOOLEAN, hasDisabled \in BOOLEAN, kbAttr \in KbAttrValues :
         RejectedBuild(hasMultiple, kbAttr) =>
           LET w == buildCallback(This, hasMultiple, hasDisabled, kbAttr) IN
           /\ w.phase = "failed" /\ w.raised # ""
           /\ w.options_ = <<>> /\ w.selectedOptions_ = <<>> /\ w.inputs_ = <<>>
           /\ ~w.clickListener /\ ~w.keyListener
  /\ phase = "failed" =>
       /\ options_ = <<>> /\ selectedOptions_ = <<>> /\ inputs_ = <<>>
       /\ ~clickListener /\ ~keyListener
       /\ ~ENABLED Click /\ ~ENABLED KeyDown

(* a build was rejected although the markup has a selected option *)
C14_Witness ==
  /\ phase = "failed" /\ raised # "" /\ lastOp.kind = "build"
  /\ \E el \in DOMAIN selectedAttr : selectedAttr[el]
  /\ elementName # ""

(* ------------------------ Form Sync, Select, Deselect ------------------ *)

(* one hidden input per selected option without `disabled`, in selection order *)
ExpectedInputs ==
  [i \in 1..Len(EmittedValues) |-> [name |-> elementName, value |-> EmittedValues[i]]]

(* the last step ran Form Sync *)
FormSyncRan ==
  \/ lastOp.kind = "build" /\ Built
  \/ NonNullMutation
  \/ lastOp.kind = "mutate" /\ fired # <<>>

(* C15: on a widget with a name that is not disabled, Form Sync replaces the
   hidden inputs created before by one input per selected option without
   `disabled`, in selection order, and returns their values in that order;
   a selected option with `disabled` gives neither an input nor a value. *)
C15_FormSyncEmitsEnabledSelection ==
  (Built /\ Named /\ ~isDisabled_) =>
    /\ LET synced == setInputs_(This) IN
       /\ synced.w.inputs_ = ExpectedInputs
       /\ synced.selectedValues = EmittedValues
    /\ FormSyncRan => inputs_ = ExpectedInputs
    /\ (lastOp.kind = "mutate" /\ fired # <<>>) =>
         fired[1].selectedOptions = EmittedValues

(* built from markup with two selected options of which one is disabled *)
C15_Witness ==
  /\ Built /\ Named /\ ~isDisabled_ /\ isMultiple_
  /\ lastOp.kind = "build"
  /\ Len(selectedOptions_) = 2 /\ Len(inputs_) = 1
  /\ \E el \in SelectedSet : disabledAttr[el]

(* C16: Select on an option that is already selected changes nothing, in
   single- and multi-select widgets: selectedOptions keeps its members and
   their order, and a following Form Sync emits the same values. *)
C16_SelectIdempotent ==
  Built =>
    \A el \in SelectedSet :
      LET again == setSelection_(This, el) IN
      /\ again.selectedOptions_ = selectedOptions_
      /\ again.selectedAttr = selectedAttr
      /\ again.ariaSelected = ariaSelected
      /\ setInputs_(again).selectedValues = setInputs_(This).selectedValues
      /\ setInputs_(again).w.inputs_ = setInputs_(This).w.inputs_

(* an external mutation asked for two options that were selected in the
   other order: both kept their place *)
C16_Witness ==
  /\ NonNullMutation /\ isMultiple_
  /\ selectedOptions_ = <<2, 1>>

(* C17: Deselect on an option of the widget that is not selected changes
   nothing: selectedOptions and the option's `selected` and aria-selected
   attributes are as before. *)
C17_DeselectNonMemberNoOp ==
  Built =>
    \A el \in Range(options_) \ SelectedSet :
      LET after == clearSelection_(This, el) IN
      /\ after.selectedOptions_ = selectedOptions_
      /\ after.selectedAttr[el] = selectedAttr[el]
      /\ after.ariaSelected[el] = ariaSelected[el]
      /\ after = This

(* an external mutation ran Deselect on an option that stayed unselected
   while another option stayed selected *)
C17_Witness ==
  /\ NonNullMutation /\ Len(options_) >= 2
  /\ selectedOptions_ # <<>>
  /\ Range(options_) \ SelectedSet # {}

(* ------------------------------- focus --------------------------------- *)

(* the last step ran Focus Recompute *)
FocusRecomputeRan ==
  \/ lastOp.kind = "build" /\ Built
  \/ NonNullMutation
  \/ lastOp.kind = "mutate" /\ fired # <<>>

(* 0-based index Focus Recompute is to choose on a widget with options *)
RecomputedIndex ==
  IF isMultiple_ \/ selectedOptions_ = <<>> THEN 0
  ELSE indexOf(options_, selectedOptions_[1])

(* C19: in FOCUS or SELECT mode with at least one option, right after
   initialization, a non-null external mutation or a pick that changed the
   selection, focusedIndex and the only option of tabIndex 0 are the first
   option in a multi-select widget, and in a single-select widget the
   selected option, or the first option when none is selected. *)
C19_FocusRecomputeTarget ==
  (/\ kbSelectMode_ # KEYBOARD_SELECT_MODES.NONE
   /\ options_ # <<>>
   /\ FocusRecomputeRan) =>
    /\ focusedIndex_ = RecomputedIndex
    /\ FocusableOptions(This) = {options_[RecomputedIndex + 1]}
    /\ (~isMultiple_ /\ selectedOptions_ # <<>>) =>
         FocusableOptions(This) = SelectedSet

(* a multi-select widget in FOCUS mode: the pick of its second option has
   just been applied and focus is on the first option *)
C19_Witness ==
  /\ Built /\ isMultiple_ /\ kbSelectMode_ = KEYBOARD_SELECT_MODES.FOCUS
  /\ lastOp.kind = "mutate" /\ fired # <<>>
  /\ Len(options_) = 2 /\ selectedOptions_ = <<options_[2]>>
  /\ focusedIndex_ = 0

(* C20: with at least one option, focusedIndex is an integer in
   [0, options.length) in every reachable state, and unless the keyboard
   select mode is NONE the option at focusedIndex is the option whose
   tabIndex is 0. *)
C20_FocusedIndexInRange ==
  options_ # <<>> =>
    /\ focusedIndex_ \in 0..(Len(options_) - 1)
    /\ kbSelectMode_ # KEYBOARD_SELECT_MODES.NONE =>
         FocusableOptions(This) = {options_[focusedIndex_ + 1]}

(* a navigation key wrapped focus from the first option to the last one *)
C20_Witness ==
  /\ Built /\ Len(options_) = MaxOpts /\ MaxOpts >= 2
  /\ lastOp.kind = "key"
  /\ focusedIndex_ = Len(options_) - 1
  /\ tabIndex[options_[Len(options_)]] = 0

(* ------------------ synchronous and deferred mutation ------------------ *)

(* click and keydown events the element can receive *)
Events ==
  {[kind |-> "click", target |-> t, keyCode |-> "", isLtr |-> TRUE] :
     t \in 0..Len(optionAttr)}
  \cup {[kind |-> "key", target |-> 0, keyCode |-> k, isLtr |-> d] :
          k \in Keycodes, d \in BOOLEAN}

Handle(w, e) ==
  IF e.kind = "click"
  THEN clickHandler_(w, e.target)
  ELSE keyDownHandler_(w, e.keyCode, e.isLtr)

(* the handlers of `events` run in order; with sync the mutators a handler
   scheduled run before it returns, otherwise they run after the last
   handler, in scheduling order *)
RECURSIVE RunEvents(_, _, _)
RunEvents(w, events, sync) ==
  IF events = <<>> THEN Drain(w)
  ELSE LET handled == Handle(w, Head(events)) IN
       RunEvents(IF sync THEN Drain(handled) ELSE handled, Tail(events), sync)

Observable(w) ==
  [selectedOptions_ |-> w.selectedOptions_, inputs_ |-> w.inputs_,
   focusedIndex_ |-> w.focusedIndex_, tabIndex |-> w.tabIndex,
   fired |-> w.fired]

(* C18: for every sequence of click and navigation-key events (here: two
   events on a built widget with no mutator pending), running each Option
   Picked body inside its handler and running it deferred, in scheduling
   order after the later handler, end with the same selectedOptions, hidden
   inputs, focusedIndex, tabIndex assignment and notification sequence. *)
C18_SyncEqualsDeferred ==
  (Built /\ mutateQueue = <<>>) =>
    \A e1 \in Events, e2 \in Events :
      Observable(RunEvents(This, <<e1, e2>>, TRUE))
        = Observable(RunEvents(This, <<e1, e2>>, FALSE))

====
